---------------------------- MODULE Spec2Model ----------------------------
(***************************************************************************)
(* Model of the answer pipeline of backend/agents.py                       *)
(* (ClimateAssistantAgents): the six stage functions, the compiled         *)
(* StateGraph that sequences them, and process_query.                      *)
(*                                                                         *)
(* Text is a sequence of tokens, so that concatenation, "ends with" and    *)
(* slicing are computed and can be refuted.  The Generation Port           *)
(* (self.llm.invoke) and the Retrieval Port                                *)
(* (document_processor.search_with_scores) are opaque: every call draws    *)
(* its outcome, a value or a failure, from a small set.                    *)
(*                                                                         *)
(* The StateGraph engine is modelled by what it does with this graph:      *)
(*   - a node's returned dict is written to the state channels;            *)
(*   - the routing function of a conditional edge is handed a freshly      *)
(*     built dict of the channel values, so an assignment it makes to     *)
(*     that dict is never written back to the channels;                    *)
(*   - graph.invoke is called without a config, so the engine's default    *)
(*     recursion limit applies and a run that still has a node to execute  *)
(*     after that many node executions raises GraphRecursionError.         *)
(***************************************************************************)
EXTENDS Integers, Sequences, FiniteSets, TLC

VARIABLES
    runs,        \* per caller, its activation of process_query:
                 \*   pc          "idle", the node the engine executes next, or "done"
                 \*   steps       node executions (supersteps) of the run
                 \*   branchView  iteration_count in the dict last handed to the
                 \*               routing function, after it ran
                 \*   result      what process_query handed to the caller
                 \*   calls       calls of process_query the caller has made
                 \*   hist        observation of the run: what executed, what the Ports did
    heap,        \* the AgentState dicts, by reference
    vector_store,\* the loaded index of self.document_processor: the ranking it holds per query
    callers,     \* the callers that call process_query
    ports,       \* "free" or "deterministic": how the Ports answer
    memo,        \* deterministic Ports: the outcome fixed so far per call site and input
    prev,        \* the result of caller 1's previous call
    http,        \* the HTTP exchange of the chat endpoint
    app          \* the module-level globals of app.py and the instances made so far

vars == <<runs, heap, vector_store, callers, ports, memo, prev, http, app>>

RunIds == {1, 2}

-----------------------------------------------------------------------------
(* Bounds and program constants *)

MAX_RETRIES == 3          \* agents.py:328, "Max 3 retries"
RecursionLimit == 25      \* default recursion limit of graph.invoke (agents.py:360)
RetrievalK == 5           \* agents.py:118, k=5
ExcerptChars == 200       \* agents.py:173, [:200]
LongContent == 201        \* length of the longest document content drawn
MaxFaults == 1            \* Port calls that may raise in one run

Min(a, b) == IF a < b THEN a ELSE b

Nodes == {"supervisor", "retriever", "answerer", "self_check", "safety", "finalizer"}

Queries == {"clima"}

-----------------------------------------------------------------------------
(* Text *)

NL == "<nl>"

\* config.py:62-66: a block of text that starts and ends with a newline
SAFETY_DISCLAIMER == <<NL, "AVISO IMPORTANTE: apenas para fins educacionais", NL>>

\* agents.py:161
NoInfoMessage == <<"Nao foi possivel encontrar informacoes relevantes nos documentos disponiveis.">>

\* agents.py:373
ApologyMessage == <<"Desculpe, ocorreu um erro ao processar sua consulta. Tente novamente.">>

\* str.lower() on one token
Lower(t) ==
    CASE t = "APPROVED" -> "approved"
      [] t = "Approved" -> "approved"
      [] t = "NEEDS_IMPROVEMENT" -> "needs_improvement"
      [] t = "REJECTED" -> "rejected"
      [] t = "Rejected" -> "rejected"
      [] t = "NOT_APPROVED" -> "not_approved"
      [] t = "Sua consulta NAO ESTA RELACIONADA ao clima" -> "nao esta relacionada"
      [] t = "Nao posso ajudar com isso" -> "nao posso ajudar"
      [] OTHER -> t

\* phrase in token, for lower-case tokens (Python's substring test)
Occurs(phrase, lowtok) ==
    \/ lowtok = phrase
    \/ phrase = "approved" /\ lowtok = "not_approved"

\* phrase in text.lower()
InLower(phrase, text) == \E i \in 1..Len(text) : Occurs(phrase, Lower(text[i]))

EndsWith(text, suffix) ==
    /\ Len(text) >= Len(suffix)
    /\ SubSeq(text, Len(text) - Len(suffix) + 1, Len(text)) = suffix

Chars(n, c) == [i \in 1..n |-> c]


-----------------------------------------------------------------------------
(* Documents and the two Ports *)

\* what the Retrieval Port yields per hit: (doc, score) with doc.page_content, doc.metadata
Hit1 == [page_content |-> Chars(3, "a"),
         metadata |-> [source |-> "IPCC_AR6", url |-> "https://www.ipcc.ch/report/ar6/syr/"],
         score |-> 91]
Hit2 == [page_content |-> Chars(2, "b"),
         metadata |-> [source |-> "NASA_Report", url |-> ""],
         score |-> 75]
Hit3 == [page_content |-> Chars(LongContent, "c"),
         metadata |-> [url |-> "https://example.org/c"],
         score |-> 40]
Hit4 == [page_content |-> <<>>,
         metadata |-> [source |-> "Relatorio local"],
         score |-> 0]

\* the rankings the index can produce for a query, of every length 0..5
Rankings ==
    { <<>>,
      <<Hit1>>,
      <<Hit1, Hit2>>,
      <<Hit3, Hit1, Hit2>>,
      <<Hit2, Hit4, Hit1, Hit2>>,
      <<Hit2, Hit1, Hit4, Hit1, Hit2>> }

Failure == [ok |-> FALSE]
Ok(v) == [ok |-> TRUE, value |-> v]

\* Port failures still allowed to this run
MayFail(faults) == IF faults < MaxFaults THEN {Failure} ELSE {}

\* document_processor.search_with_scores(query, k): the similarity search of
\* the loaded index, which no code changes after load_vector_store, so a call
\* that returns yields the first k hits of the index's ranking for the query
RetrievalPort(store, query, k, faults) ==
    {Ok(SubSeq(store[query], 1, Min(k, Len(store[query]))))} \cup MayFail(faults)

\* self.llm.invoke(prompt): a text, or an exception.  What the model answers is
\* not determined by the prompt, so each call site draws from its own texts.
GenerationPort(texts, faults) == {Ok(t) : t \in texts} \cup MayFail(faults)

SupervisorTexts ==
    { <<"A consulta e relevante; prosseguir com a busca">>,
      <<"Desculpe.", "Sua consulta NAO ESTA RELACIONADA ao clima">>,
      <<"Nao posso ajudar com isso", "Sou especializado em clima.">> }

AdequacyTexts == { <<"Os documentos sao relevantes">> }

AnswerTexts == { <<"O aquecimento e inequivoco", "[Fonte 1]">>, <<>> }

GateTexts ==
    { <<"APPROVED", "bem fundamentada">>,
      <<"Approved">>,
      <<"NEEDS_IMPROVEMENT", "faltam citacoes">>,
      <<"REJECTED">>,
      <<"Rejected", "fora do escopo">>,
      <<"Rejected", "but partly", "APPROVED">>,
      <<"NOT_APPROVED">>,
      <<"sem veredito claro">> }

SafetyTexts ==
    { <<"Resposta revisada", "Dados podem estar desatualizados">>,
      <<>>,
      SAFETY_DISCLAIMER \o <<"texto depois do aviso">> }

\* the gate texts that hold the REJECTED token and no other verdict token
RejectedTexts == { <<"REJECTED">> }

-----------------------------------------------------------------------------
(* Pipeline state *)

InitialStateCountCarriedOver(q) ==
    [ messages |-> <<>>,
      query |-> q,
      retrieved_docs |-> <<>>,
      answer |-> <<>>,
      citations |-> <<>>,
      self_check_passed |-> FALSE,
      safety_check_passed |-> FALSE,
      final_response |-> <<>>,
      iteration_count |-> IF \E r \in RunIds : runs[r].calls > 0 THEN MAX_RETRIES ELSE 0 ]

InitialStateCountingDown(q) ==
    [ messages |-> <<>>,
      query |-> q,
      retrieved_docs |-> <<>>,
      answer |-> <<>>,
      citations |-> <<>>,
      safety_check_passed |-> FALSE,
      self_check_passed |-> FALSE,
      final_response |-> <<>>,
      iteration_count |-> MAX_RETRIES + 1 ]

\* process_query: initial_state
InitialState(q) ==
    [ messages |-> <<>>,
      query |-> q,
      retrieved_docs |-> <<>>,
      answer |-> <<>>,
      citations |-> <<>>,
      safety_check_passed |-> FALSE,
      self_check_passed |-> FALSE,
      final_response |-> <<>>,
      iteration_count |-> 0 ]

\* No stage reads a message back, so a message is modelled by its identity
\* (the id of the response object) and the node whose call produced it.
Message(id, node) == [id |-> id, node |-> node]

HasId(msgs, id) == \E i \in 1..Len(msgs) : msgs[i].id = id

RECURSIVE AddMessagesNewestFirst(_, _)
AddMessagesNewestFirst(left, right) ==
    IF right = <<>> THEN left
    ELSE LET m == Head(right)
             merged == IF HasId(left, m.id)
                       THEN [i \in 1..Len(left) |-> IF left[i].id = m.id THEN m ELSE left[i]]
                       ELSE <<m>> \o left
         IN AddMessagesNewestFirst(merged, Tail(right))

RECURSIVE AddMessages(_, _)
\* the reducer of the messages channel: a message whose id is already in the
\* list replaces that entry in place, any other message is appended
AddMessages(left, right) ==
    IF right = <<>> THEN left
    ELSE LET m == Head(right)
             merged == IF HasId(left, m.id)
                       THEN [i \in 1..Len(left) |-> IF left[i].id = m.id THEN m ELSE left[i]]
                       ELSE Append(left, m)
         IN AddMessages(merged, Tail(right))

\* the engine writes the dict a node returns to the channels: last value wins
\* for every key but messages, which goes through its reducer
WriteChannels(old, returned) ==
    [returned EXCEPT !.messages = AddMessages(old.messages, returned.messages)]

-----------------------------------------------------------------------------
(* Stage functions: each maps the dict it is handed to the dict it returns *)

\* supervisor_agent, given the Generation Port's response
supervisor_agent(st, response) ==
    IF \/ InLower("nao esta relacionada", response.content)
       \/ InLower("nao posso ajudar", response.content)
    THEN [st EXCEPT !.final_response = response.content]
    ELSE [st EXCEPT !.messages = <<Message(response.id, "supervisor")>>]

\* retriever_agent: the loop that turns (doc, score) pairs into dicts
ToRetrievedDocs(hits) ==
    [i \in 1..Len(hits) |->
        [content |-> hits[i].page_content,
         metadata |-> hits[i].metadata,
         score |-> hits[i].score]]

retriever_agent_keeps_found(st, retrieval, adequacy) ==
    IF retrieval.ok
    THEN [st EXCEPT !.retrieved_docs = ToRetrievedDocs(retrieval.value),
                    !.messages = IF adequacy.ok
                                 THEN Append(@, Message(adequacy.value.id, "retriever"))
                                 ELSE @]
    ELSE [st EXCEPT !.retrieved_docs = <<>>]

\* retriever_agent, given the outcome of the Retrieval Port call and of the
\* adequacy call that follows it inside the same try block
retriever_agent(st, retrieval, adequacy) ==
    IF retrieval.ok /\ adequacy.ok
    THEN [st EXCEPT !.retrieved_docs = ToRetrievedDocs(retrieval.value),
                    !.messages = Append(@, Message(adequacy.value.id, "retriever"))]
    ELSE [st EXCEPT !.retrieved_docs = <<>>]

\* dict.get(key, default)
Get(d, key, default) == IF key \in DOMAIN d THEN d[key] ELSE default

\* doc['content'][:200] + "..."
Excerpt(content) ==
    SubSeq(content, 1, Min(ExcerptChars, Len(content))) \o <<".", ".", ".">>

BuildCitationsZeroBased(docs) ==
    [i \in 1..Len(docs) |->
        [id |-> i - 1,
         content |-> Excerpt(docs[i].content),
         source |-> Get(docs[i].metadata, "source", "Desconhecido"),
         url |-> Get(docs[i].metadata, "url", ""),
         score |-> docs[i].score]]

\* answerer_agent: the citations built in the enumerate loop
BuildCitations(docs) ==
    [i \in 1..Len(docs) |->
        [id |-> i,
         content |-> Excerpt(docs[i].content),
         source |-> Get(docs[i].metadata, "source", "Desconhecido"),
         url |-> Get(docs[i].metadata, "url", ""),
         score |-> docs[i].score]]

answerer_short_circuit_keeps_citations(st) ==
    [st EXCEPT !.answer = NoInfoMessage]

answerer_short_circuit_no_answer(st) ==
    [st EXCEPT !.citations = <<>>]

\* answerer_agent when there is nothing retrieved: no Generation Port call
answerer_short_circuit(st) ==
    [st EXCEPT !.answer = NoInfoMessage, !.citations = <<>>]

\* answerer_agent otherwise, given the Generation Port's response
answerer_agent(st, response) ==
    [st EXCEPT !.answer = response.content,
               !.citations = BuildCitations(st.retrieved_docs)]

ParseVerdictRefusalFirst(text) ==
    IF InLower("needs_improvement", text) \/ InLower("rejected", text) THEN FALSE
    ELSE IF InLower("approved", text) THEN TRUE
    ELSE TRUE

ParseVerdictFailClosed(text) ==
    IF InLower("approved", text) THEN TRUE
    ELSE IF InLower("needs_improvement", text) \/ InLower("rejected", text) THEN FALSE
    ELSE FALSE

\* self_check_agent: the verdict parsed from the response
ParseVerdict(text) ==
    IF InLower("approved", text) THEN TRUE
    ELSE IF InLower("needs_improvement", text) \/ InLower("rejected", text) THEN FALSE
    ELSE TRUE

self_check_agent(st, response) ==
    [st EXCEPT !.self_check_passed = ParseVerdict(response.content),
               !.messages = Append(@, Message(response.id, "self_check"))]

safety_agent_skips_empty(st, response) ==
    [st EXCEPT !.safety_check_passed = TRUE,
               !.final_response = IF response.content = <<>> THEN <<>>
                                  ELSE response.content \o <<NL, NL>> \o SAFETY_DISCLAIMER]

safety_agent_disclaimer_first(st, response) ==
    [st EXCEPT !.safety_check_passed = TRUE,
               !.final_response = SAFETY_DISCLAIMER \o <<NL, NL>> \o response.content]

\* safety_agent, given the Generation Port's response
safety_agent(st, response) ==
    [st EXCEPT !.safety_check_passed = TRUE,
               !.final_response = response.content \o <<NL, NL>> \o SAFETY_DISCLAIMER]

CitationLineAlwaysUrl(c) ==
    <<"- [", ToString(c.id), "] ", c.source>> \o <<" (", c.url, ")">> \o <<NL>>

\* finalizer_agent: one line of the sources block
CitationLine(c) ==
    <<"- [", ToString(c.id), "] ", c.source>>
        \o (IF c.url # "" THEN <<" (", c.url, ")">> ELSE <<>>)
        \o <<NL>>

RECURSIVE CitationLines(_)
CitationLines(cs) ==
    IF cs = <<>> THEN <<>> ELSE CitationLine(Head(cs)) \o CitationLines(Tail(cs))

CitationText(cs) == <<NL, NL, "**Fontes consultadas:**", NL>> \o CitationLines(cs)

finalizer_agent_no_sources(st) == st

finalizer_agent(st) ==
    IF st.citations # <<>>
    THEN [st EXCEPT !.final_response = @ \o CitationText(st.citations)]
    ELSE st

\* _should_continue_after_self_check: the route it returns and the
\* iteration_count it leaves in the dict it was handed
should_continue_after_self_check(st) ==
    IF st.self_check_passed
    THEN [route |-> "continue", iteration_count |-> st.iteration_count]
    ELSE IF st.iteration_count < MAX_RETRIES
    THEN [route |-> "retry", iteration_count |-> st.iteration_count + 1]
    ELSE [route |-> "end", iteration_count |-> st.iteration_count]

-----------------------------------------------------------------------------
(* The compiled graph and process_query *)

END == "END"

\* _create_graph: set_entry_point
EntryPoint == "supervisor"

\* _create_graph: add_edge
Edge(node) ==
    CASE node = "supervisor" -> "retriever"
      [] node = "retriever" -> "answerer"
      [] node = "answerer" -> "self_check"
      [] node = "safety" -> "finalizer"
      [] node = "finalizer" -> END

BranchTargetRetryToSafety(route) ==
    CASE route = "continue" -> "safety"
      [] route = "retry" -> "safety"
      [] route = "end" -> END

\* _create_graph: the mapping of add_conditional_edges("self_check", ...)
BranchTarget(route) ==
    CASE route = "continue" -> "safety"
      [] route = "retry" -> "retriever"
      [] route = "end" -> END

\* What the channels hold once the routing function has run on its own dict
\* of the state: the engine takes the route from it and nothing else.
AfterRouting(st, routed) == st

\* markdown.Markdown(...).convert(text), falling back to the text itself
convert_markdown_to_html(text) ==
    IF text = <<>> THEN <<>> ELSE <<"<p>">> \o text \o <<"</p>">>

\* process_query: the envelope built from the state graph.invoke returned
process_query_return(final) ==
    [kind |-> "return",
     value |-> [response |-> final.final_response,
                response_html |-> convert_markdown_to_html(final.final_response),
                citations |-> final.citations,
                retrieved_docs_count |-> Len(final.retrieved_docs),
                success |-> TRUE]]

process_query_reraise == [kind |-> "raise"]

\* process_query: the except branch around graph.invoke
process_query_except ==
    [kind |-> "return",
     value |-> [response |-> ApologyMessage,
                citations |-> <<>>,
                retrieved_docs_count |-> 0,
                success |-> FALSE]]

NoResult == [kind |-> "none"]
NoState == [none |-> TRUE]

InitialHist ==
    [ executed |-> [n \in Nodes |-> 0],   \* completed executions per node
      last |-> "none",                    \* the node that completed last
      docsAtDraft |-> <<>>,               \* retrieved_docs when the Answer-Composer last ran
      refused |-> FALSE,                  \* the Router stored a refusal
      refusal |-> <<>>,                   \* ... this text
      gateEvals |-> 0,                    \* Generation Port answers to the Quality-Gate
      gateText |-> <<>>,                  \* the text the Quality-Gate parsed, while it is the last node
      onlyRejected |-> TRUE,              \* every one of them was a REJECTED text
      retries |-> 0,                      \* times the conditional edge led back to the Retriever-Stage
      retrievals |-> 0,                   \* Retrieval Port calls
      retrievalFailed |-> FALSE,          \* one of them raised
      portOutcome |-> "none",             \* how the Ports answered the latest Retriever-Stage
      faults |-> 0,                       \* Port calls that raised
      failedAt |-> "none",                \* where the exception that ended the run was raised
      nextId |-> 1 ]                      \* id of the next Generation Port response

Done(h, node) ==
    [h EXCEPT !.executed[node] = @ + 1, !.last = node, !.gateText = <<>>]

\* a caller of process_query on the one ClimateAssistantAgents instance, and
\* the activation of process_query it is in
IdleRun ==
    [ pc |-> "idle",
      query |-> "",
      together |-> FALSE,
      steps |-> 0,
      branchView |-> 0,
      result |-> NoResult,
      calls |-> 0,
      hist |-> InitialHist ]

StateRefOnInstance(r) == 1

\* Where the pipeline state of caller r's run lives: initial_state is a local
\* of process_query and graph.invoke keeps the channels of one invocation, so
\* every activation has a dict of its own.
StateRef(r) == r

\* caller 1 is the run the claims observe
pc == runs[1].pc
steps == runs[1].steps
branchView == runs[1].branchView
result == runs[1].result
hist == runs[1].hist
state == heap[StateRef(1)]

EmptyMemo == [site \in {"supervisor", "retrieval", "adequacy", "answerer", "self_check", "safety"} |-> {}]

\* A Port call: with ports = "free" the Port may answer anything it can
\* answer; with ports = "deterministic" it is a stub with a fixed outcome per
\* input, drawn the first time the input is seen and repeated from then on.
Ask(site, input, outcomes) ==
    IF ports = "deterministic" /\ \E e \in memo[site] : e.input = input
    THEN {e.out : e \in {x \in memo[site] : x.input = input}}
    ELSE outcomes

Remember(m, site, input, out) ==
    IF ports = "deterministic"
    THEN [m EXCEPT ![site] = @ \cup {[input |-> input, out |-> out]}]
    ELSE m

NoHttp == [phase |-> "off"]

\* app.py before anything ran: document_processor = None, climate_agents = None
NoInstance == [id |-> 0, vector_store_loaded |-> FALSE]
NoAgents == [id |-> 0, document_processor |-> NoInstance]

NoApp ==
    [ phase |-> "off",
      document_processor |-> NoInstance,
      climate_agents |-> NoAgents,
      created |-> 0,
      reloads |-> 0 ]

ColdStart(callerSet, mode, store) ==
    /\ runs = [r \in RunIds |-> IdleRun]
    /\ heap = [r \in RunIds |-> NoState]
    /\ vector_store = store
    /\ callers = callerSet
    /\ ports = mode
    /\ memo = EmptyMemo
    /\ prev = NoResult
    /\ http = NoHttp
    /\ app = NoApp

Init == \E store \in [Queries -> Rankings] : ColdStart({1}, "free", store)

Frame == UNCHANGED <<vector_store, callers, ports, http, app>>

\* process_query up to the point where graph.invoke starts the entry node
StartRun(r, q) ==
    LET others == \E c \in RunIds \ {r} : runs[c].pc \in Nodes
    IN
    /\ heap' = [heap EXCEPT ![StateRef(r)] = InitialState(q)]
    /\ runs' = [c \in RunIds |->
            IF c = r
            THEN [ pc |-> EntryPoint,
                   query |-> q,
                   together |-> others,
                   steps |-> 0,
                   branchView |-> InitialState(q).iteration_count,
                   result |-> NoResult,
                   calls |-> runs[r].calls + 1,
                   hist |-> InitialHist ]
            ELSE [runs[c] EXCEPT !.together = @ \/ runs[c].pc \in Nodes]]
    /\ UNCHANGED <<memo, vector_store, callers, ports, app>>

\* a caller's first call of process_query
ProcessQueryOf(r) ==
    /\ runs[r].pc = "idle"
    /\ \E q \in DOMAIN vector_store : StartRun(r, q)
    /\ UNCHANGED <<prev, http>>

\* what a caller keeps of a call that returned, to compare the next one with
Earlier(r) ==
    [ kind |-> "earlier",
      caller |-> r,
      together |-> runs[r].together,
      result |-> runs[r].result,
      retrieved_docs |-> heap[StateRef(r)].retrieved_docs ]

\* a caller calls process_query once more with the query it used before,
\* while no other call is in progress
ProcessQueryAgainOf(r) ==
    /\ \A c \in callers : runs[c].pc = "done" /\ runs[c].calls = 1
    /\ prev' = Earlier(r)
    /\ StartRun(r, runs[r].query)
    /\ UNCHANGED http

\* a node returned: its dict is written to the channels and the engine moves
\* along the edge; reaching END makes graph.invoke return to process_query
Completes(r, returned, next, h, view) ==
    LET written == WriteChannels(heap[StateRef(r)], returned)
    IN /\ heap' = [heap EXCEPT ![StateRef(r)] = written]
       /\ runs' = [runs EXCEPT ![r] =
               [@ EXCEPT !.pc = IF next = END THEN "done" ELSE next,
                         !.steps = @ + 1,
                         !.branchView = view,
                         !.result = IF next = END THEN process_query_return(written) ELSE @,
                         !.hist = h]]
       /\ UNCHANGED prev
       /\ Frame

\* a node raised: the exception leaves graph.invoke and process_query handles it
Raises(r, node) ==
    /\ runs' = [runs EXCEPT ![r] =
            [@ EXCEPT !.pc = "done",
                      !.steps = @ + 1,
                      !.result = process_query_except,
                      !.hist = [@ EXCEPT !.failedAt = node, !.faults = @ + 1]]]
    /\ UNCHANGED <<heap, prev>>
    /\ Frame

Runnable(r, node) == runs[r].pc = node /\ runs[r].steps < RecursionLimit

Response(r, gen) == [id |-> runs[r].hist.nextId, content |-> gen.value]

SupervisorOf(r) ==
    LET st == heap[StateRef(r)]
        h == runs[r].hist
        input == <<st.query>>
    IN
    /\ Runnable(r, "supervisor")
    /\ \E gen \in Ask("supervisor", input, GenerationPort(SupervisorTexts, h.faults)) :
        /\ memo' = Remember(memo, "supervisor", input, gen)
        /\ IF ~gen.ok THEN Raises(r, "supervisor")
           ELSE LET returned == supervisor_agent(st, Response(r, gen))
                    isRefusal == returned.final_response # st.final_response
                IN Completes(r, returned, Edge("supervisor"),
                       [Done(h, "supervisor") EXCEPT
                           !.nextId = @ + 1,
                           !.refused = isRefusal,
                           !.refusal = IF isRefusal THEN gen.value ELSE <<>>],
                       runs[r].branchView)

RetrieverOf(r) ==
    LET st == heap[StateRef(r)]
        h == runs[r].hist
        input == <<st.query>>
    IN
    /\ Runnable(r, "retriever")
    /\ \E retrieval \in Ask("retrieval", input,
                           RetrievalPort(vector_store, st.query, RetrievalK, h.faults)) :
       \* the adequacy call is made only when the retrieval call returned
       \E gen \in IF retrieval.ok
                  THEN Ask("adequacy", <<st.query, retrieval.value>>,
                           GenerationPort(AdequacyTexts, h.faults))
                  ELSE {Failure} :
        LET adequacy == IF gen.ok THEN Ok(Response(r, gen)) ELSE Failure
            returned == retriever_agent(st, retrieval, adequacy)
            seen == Remember(memo, "retrieval", input, retrieval)
        IN /\ memo' = IF retrieval.ok
                      THEN Remember(seen, "adequacy", <<st.query, retrieval.value>>, gen)
                      ELSE seen
           /\ Completes(r, returned, Edge("retriever"),
                 [Done(h, "retriever") EXCEPT
                     !.nextId = IF gen.ok THEN @ + 1 ELSE @,
                     !.retrievals = @ + 1,
                     !.retrievalFailed = @ \/ ~retrieval.ok,
                     !.faults = IF gen.ok THEN @ ELSE @ + 1,
                     !.portOutcome = IF ~retrieval.ok THEN "retrieval_failed"
                                     ELSE IF ~gen.ok THEN "adequacy_failed"
                                     ELSE "ok"],
                 runs[r].branchView)

AnswererOfAlwaysGenerates(r) ==
    LET st == heap[StateRef(r)]
        h == runs[r].hist
        input == <<st.query, st.retrieved_docs>>
    IN
    /\ Runnable(r, "answerer")
    /\ \E gen \in Ask("answerer", input, GenerationPort(AnswerTexts, h.faults)) :
        /\ memo' = Remember(memo, "answerer", input, gen)
        /\ IF ~gen.ok THEN Raises(r, "answerer")
           ELSE Completes(r, answerer_agent(st, Response(r, gen)), Edge("answerer"),
                    [Done(h, "answerer") EXCEPT
                        !.nextId = @ + 1,
                        !.docsAtDraft = st.retrieved_docs],
                    runs[r].branchView)

AnswererOf(r) ==
    LET st == heap[StateRef(r)]
        h == runs[r].hist
        input == <<st.query, st.retrieved_docs>>
    IN
    /\ Runnable(r, "answerer")
    /\ IF st.retrieved_docs = <<>>
       THEN /\ Completes(r, answerer_short_circuit(st), Edge("answerer"),
                  [Done(h, "answerer") EXCEPT !.docsAtDraft = st.retrieved_docs],
                  runs[r].branchView)
            /\ UNCHANGED memo
       ELSE \E gen \in Ask("answerer", input, GenerationPort(AnswerTexts, h.faults)) :
            /\ memo' = Remember(memo, "answerer", input, gen)
            /\ IF ~gen.ok THEN Raises(r, "answerer")
               ELSE Completes(r, answerer_agent(st, Response(r, gen)), Edge("answerer"),
                        [Done(h, "answerer") EXCEPT
                            !.nextId = @ + 1,
                            !.docsAtDraft = st.retrieved_docs],
                        runs[r].branchView)

\* the self_check node followed, in the same engine step, by the routing
\* function of its conditional edge
SelfCheckOf(r) ==
    LET st == heap[StateRef(r)]
        h == runs[r].hist
        input == <<st.query, st.answer, Len(st.citations)>>
    IN
    /\ Runnable(r, "self_check")
    /\ \E gen \in Ask("self_check", input, GenerationPort(GateTexts, h.faults)) :
        /\ memo' = Remember(memo, "self_check", input, gen)
        /\ IF ~gen.ok THEN Raises(r, "self_check")
           ELSE LET returned == self_check_agent(st, Response(r, gen))
                    written == WriteChannels(st, returned)
                    routed == should_continue_after_self_check(written)
                IN Completes(r, AfterRouting(returned, routed), BranchTarget(routed.route),
                       [Done(h, "self_check") EXCEPT
                           !.nextId = @ + 1,
                           !.gateEvals = @ + 1,
                           !.gateText = gen.value,
                           !.retries = IF routed.route = "retry" THEN @ + 1 ELSE @,
                           !.onlyRejected = @ /\ gen.value \in RejectedTexts],
                       routed.iteration_count)

SafetyOf(r) ==
    LET st == heap[StateRef(r)]
        h == runs[r].hist
        input == <<st.answer>>
    IN
    /\ Runnable(r, "safety")
    /\ \E gen \in Ask("safety", input, GenerationPort(SafetyTexts, h.faults)) :
        /\ memo' = Remember(memo, "safety", input, gen)
        /\ IF ~gen.ok THEN Raises(r, "safety")
           ELSE Completes(r, safety_agent(st, Response(r, gen)), Edge("safety"),
                    [Done(h, "safety") EXCEPT !.nextId = @ + 1],
                    runs[r].branchView)

FinalizerOf(r) ==
    /\ Runnable(r, "finalizer")
    /\ Completes(r, finalizer_agent(heap[StateRef(r)]), Edge("finalizer"),
           Done(runs[r].hist, "finalizer"), runs[r].branchView)
    /\ UNCHANGED memo

\* the engine has a node to execute but the recursion limit is used up:
\* graph.invoke raises GraphRecursionError, which process_query handles
RecursionLimitReachedOf(r) ==
    /\ runs[r].pc \in Nodes
    /\ runs[r].steps >= RecursionLimit
    /\ runs' = [runs EXCEPT ![r] =
            [@ EXCEPT !.pc = "done",
                      !.result = process_query_except,
                      !.hist = [@ EXCEPT !.failedAt = "recursion_limit"]]]
    /\ UNCHANGED <<heap, memo, prev>>
    /\ Frame

ProcessQuery == \E r \in callers : ProcessQueryOf(r)
Supervisor == \E r \in RunIds : SupervisorOf(r)
Retriever == \E r \in RunIds : RetrieverOf(r)
Answerer == \E r \in RunIds : AnswererOf(r)
SelfCheck == \E r \in RunIds : SelfCheckOf(r)
Safety == \E r \in RunIds : SafetyOf(r)
Finalizer == \E r \in RunIds : FinalizerOf(r)
RecursionLimitReached == \E r \in RunIds : RecursionLimitReachedOf(r)

Next ==
    \/ ProcessQuery
    \/ Supervisor
    \/ Retriever
    \/ Answerer
    \/ SelfCheck
    \/ Safety
    \/ Finalizer
    \/ RecursionLimitReached

Spec == Init /\ [][Next]_vars

\* The same instance behind deterministic Port stubs, used by one caller
\* twice in a row or by two callers at once and then by one of them again.
Topics == {"clima", "oceanos"}

Workloads ==
    { [callers |-> {1}, store |-> [clima |-> <<Hit1, Hit2>>, oceanos |-> <<Hit3>>]],
      [callers |-> {1}, store |-> [clima |-> <<>>, oceanos |-> <<Hit2, Hit1, Hit4>>]],
      [callers |-> {1, 2}, store |-> [clima |-> <<Hit1, Hit2>>]],
      [callers |-> {1, 2}, store |-> [clima |-> <<>>]] }

InitDet ==
    \E w \in Workloads : ColdStart(w.callers, "deterministic", w.store)

ProcessQueryAgain == \E r \in callers : ProcessQueryAgainOf(r)

NextDet ==
    \/ Next
    \/ ProcessQueryAgain

SpecDet == InitDet /\ [][NextDet]_vars

\* The Flask application in front of the instance: one POST /get_response.
MaxMessages == 3

None == "<None>"

\* the JSON objects a client may put in the message list
MessageShapes ==
    { [role |-> ro, content |-> c] : ro \in {"user", "assistant"}, c \in {"clima", "oceanos", ""} }
        \cup { [role |-> "user"], [content |-> "clima"] }

MessageLists == UNION { [1..n -> MessageShapes] : n \in 0..MaxMessages }

\* the JSON bodies: with a 'messages' list, or without the key
Requests == { [messages |-> ms] : ms \in MessageLists } \cup { [text |-> "clima"] }

RECURSIVE ScanFromStart(_, _)
ScanFromStart(messages, i) ==
    IF i = 0 THEN [user_message |-> None, skipped |-> Len(messages)]
    ELSE LET at == Len(messages) - i + 1
         IN IF Get(messages[at], "role", None) = "user"
            THEN [user_message |-> Get(messages[at], "content", ""), skipped |-> at - 1]
            ELSE ScanFromStart(messages, i - 1)

\* get_response: for message in reversed(messages), from index i down
RECURSIVE ScanReversed(_, _)
ScanReversed(messages, i) ==
    IF i = 0 THEN [user_message |-> None, skipped |-> Len(messages)]
    ELSE IF Get(messages[i], "role", None) = "user"
         THEN [user_message |-> Get(messages[i], "content", ""), skipped |-> Len(messages) - i]
         ELSE ScanReversed(messages, i - 1)

\* 'not user_message'
Falsy(v) == v \in {None, ""}

Listening(agents) ==
    [ phase |-> "listening", climate_agents |-> agents, request |-> None,
      skipped |-> 0, status |-> 0, body |-> None ]

HttpStores == { [clima |-> <<Hit1, Hit2, Hit3, Hit4>>, oceanos |-> <<Hit2, Hit1>>] }

\* after initialize_system: climate_agents is the instance, or still None
\* when the vector store could not be loaded
InitHttp ==
    \E store \in HttpStores, agents \in BOOLEAN :
        /\ runs = [r \in RunIds |-> IdleRun]
        /\ heap = [r \in RunIds |-> NoState]
        /\ vector_store = store
        /\ callers = {1}
        /\ ports = "free"
        /\ memo = EmptyMemo
        /\ prev = NoResult
        /\ http = Listening(agents)
        /\ app = NoApp

\* a POST /get_response arrives
Receive ==
    /\ http.phase = "listening"
    /\ \E data \in Requests : http' = [http EXCEPT !.phase = "received", !.request = data]
    /\ UNCHANGED <<runs, heap, vector_store, callers, ports, memo, prev, app>>

\* get_response returns without calling process_query
Answer(code, error) ==
    /\ http' = [http EXCEPT !.phase = "answered", !.request = None,
                            !.status = code, !.body = [error |-> error]]
    /\ UNCHANGED <<runs, heap, vector_store, callers, ports, memo, prev, app>>

\* get_response up to the call of climate_agents.process_query
GetResponse ==
    /\ http.phase = "received"
    /\ LET data == http.request
       IN IF "messages" \notin DOMAIN data
          THEN Answer(400, "Invalid data format")
          ELSE LET found == ScanReversed(data.messages, Len(data.messages))
               IN IF Falsy(found.user_message)
                  THEN Answer(400, "No user message found")
                  ELSE IF ~http.climate_agents
                  THEN Answer(503, "System not initialized")
                  ELSE /\ StartRun(1, found.user_message)
                       /\ http' = [http EXCEPT !.phase = "processing", !.request = None,
                                               !.skipped = found.skipped]
                       /\ UNCHANGED prev

LastThree(citations) ==
    SubSeq(citations, Len(citations) - Min(3, Len(citations)) + 1, Len(citations))

\* result["citations"][:3]
FirstThree(citations) == SubSeq(citations, 1, Min(3, Len(citations)))

\* get_response after process_query returned
Respond ==
    /\ http.phase = "processing"
    /\ runs[1].pc = "done"
    /\ LET returned == runs[1].result.value
       IN http' = [http EXCEPT
                !.phase = "answered",
                !.status = IF returned.success THEN 200 ELSE 500,
                !.body = IF returned.success
                         THEN [ response |-> returned.response,
                                response_html |-> returned.response_html,
                                metadata |-> [ citations_count |-> Len(returned.citations),
                                               retrieved_docs_count |-> returned.retrieved_docs_count,
                                               citations |-> FirstThree(returned.citations) ] ]
                         ELSE [ response |-> returned.response, error |-> "Processing failed" ]]
    /\ UNCHANGED <<runs, heap, vector_store, callers, ports, memo, prev, app>>

NextHttp ==
    \/ Receive
    \/ GetResponse
    \/ Respond
    \/ Supervisor
    \/ Retriever
    \/ Answerer
    \/ SelfCheck
    \/ Safety
    \/ Finalizer
    \/ RecursionLimitReached

SpecHttp == InitHttp /\ [][NextHttp]_vars

\* The application's start and its maintenance endpoints: initialize_system,
\* POST /reload, POST /search and GET /status.
MaxReloads == 3

\* how far a call of initialize_system gets
InitOutcomes == {"processor_raises", "load_fails", "agents_raise", "ok"}

\* initialize_system: the globals after a call that gets as far as outcome,
\* and what it returns
initialize_system(a, outcome) ==
    LET made == [id |-> a.created + 1, vector_store_loaded |-> outcome \in {"agents_raise", "ok"}]
        agents == [id |-> a.created + 2, document_processor |-> made]
    IN CASE outcome = "processor_raises" ->
                [globals |-> a, returned |-> FALSE]
         [] outcome = "load_fails" ->
                [globals |-> [a EXCEPT !.document_processor = made, !.created = @ + 1],
                 returned |-> FALSE]
         [] outcome = "agents_raise" ->
                [globals |-> [a EXCEPT !.document_processor = made, !.created = @ + 1],
                 returned |-> FALSE]
         [] outcome = "ok" ->
                [globals |-> [a EXCEPT !.document_processor = made,
                                       !.climate_agents = agents,
                                       !.created = @ + 2],
                 returned |-> TRUE]

InitApp ==
    /\ runs = [r \in RunIds |-> IdleRun]
    /\ heap = [r \in RunIds |-> NoState]
    /\ vector_store \in HttpStores
    /\ callers = {}
    /\ ports = "free"
    /\ memo = EmptyMemo
    /\ prev = NoResult
    /\ http = Listening(FALSE)
    /\ app = [NoApp EXCEPT !.phase = "starting"]

AppFrame == UNCHANGED <<runs, heap, vector_store, callers, ports, memo, prev>>

\* __main__: the server runs only if initialize_system returned True
Startup ==
    /\ app.phase = "starting"
    /\ \E outcome \in InitOutcomes :
        LET done == initialize_system(app, outcome)
        IN app' = [done.globals EXCEPT !.phase = IF done.returned THEN "serving" ELSE "stopped"]
    /\ UNCHANGED http
    /\ AppFrame

\* POST /reload
Reload ==
    /\ app.phase = "serving"
    /\ app.reloads < MaxReloads
    /\ \E outcome \in InitOutcomes :
        LET done == initialize_system(app, outcome)
        IN /\ app' = [done.globals EXCEPT !.reloads = @ + 1]
           /\ http' = [Listening(done.globals.climate_agents.id # 0) EXCEPT
                            !.phase = "reloaded",
                            !.status = IF done.returned THEN 200 ELSE 500]
    /\ AppFrame

\* POST /search with a JSON body that holds this query
Search ==
    /\ app.phase = "serving"
    /\ \E query \in DOMAIN vector_store \cup {""} :
        http' = [Listening(app.climate_agents.id # 0) EXCEPT
                    !.phase = "searched",
                    !.request = query,
                    !.status = IF query = "" THEN 400
                               ELSE IF app.document_processor.id = 0 THEN 503
                               ELSE IF ~app.document_processor.vector_store_loaded THEN 500
                               ELSE 200,
                    !.body = IF query # "" /\ app.document_processor.vector_store_loaded
                             THEN [count |-> Min(RetrievalK, Len(vector_store[query]))]
                             ELSE None]
    /\ UNCHANGED app
    /\ AppFrame

\* GET /status
Status ==
    /\ app.phase = "serving"
    /\ http' = [Listening(app.climate_agents.id # 0) EXCEPT
                    !.phase = "status",
                    !.status = 200,
                    !.body = [ system_initialized |-> app.climate_agents.id # 0,
                               document_processor_ready |-> app.document_processor.id # 0,
                               vector_store_loaded |-> app.document_processor.vector_store_loaded ]]
    /\ UNCHANGED app
    /\ AppFrame

NextApp ==
    \/ Startup
    \/ Reload
    \/ Search
    \/ Status

SpecApp == InitApp /\ [][NextApp]_vars

-----------------------------------------------------------------------------
(* Claims *)

InRun == pc # "idle"
Returned == pc = "done" /\ result.kind = "return"

\* C1: with a Generation Port whose Quality-Gate verdict is always REJECTED
\* and no Port failure, the Quality-Gate executes at most MAX_RETRIES + 1
\* times, and the run ends after exactly that many with success = true.
C1_RejectingGateEndsAfterFourEvaluations ==
    (hist.onlyRejected /\ hist.faults = 0) =>
        /\ hist.executed["self_check"] <= MAX_RETRIES + 1
        /\ pc = "done" =>
            /\ hist.executed["self_check"] = MAX_RETRIES + 1
            /\ result.kind = "return"
            /\ result.value.success

\* C2: once the Quality-Gate has refused the draft with MAX_RETRIES retries
\* already taken, the run is over, final_response is the draft as it stands,
\* and that draft is the response process_query returned.
C2_RetryExhaustedReturnsDraft ==
    (InRun /\ hist.last = "self_check" /\ ~state.self_check_passed
           /\ hist.executed["self_check"] > MAX_RETRIES) =>
        /\ Returned
        /\ state.final_response = state.answer
        /\ result.value.response = state.answer

\* C3: the Retriever-Stage executes at most MAX_RETRIES + 1 times in a run,
\* and iteration_count in the shared state counts the re-entries taken.
C3_ReentriesBoundedAndCounted ==
    InRun =>
        /\ hist.executed["retriever"] <= MAX_RETRIES + 1
        /\ state.iteration_count = hist.retries

\* C4: iteration_count is 0 when the run starts and stays within
\* 0..MAX_RETRIES, in the shared state as in the dict the routing function
\* updates.
C4_RetryCountWithinBound ==
    InRun =>
        /\ state.iteration_count \in 0..MAX_RETRIES
        /\ branchView \in 0..MAX_RETRIES
        /\ hist.last = "none" => state.iteration_count = 0

C4_Witness ==
    /\ pc = "retriever"
    /\ hist.retries > MAX_RETRIES
    /\ branchView = 1

\* C5: when the Router's judgment holds an out-of-domain phrase and no Port
\* fails, process_query returns that judgment verbatim as response, with no
\* citations and retrieved_docs_count = 0.
C5_RefusalReturnedVerbatim ==
    (Returned /\ hist.refused /\ hist.faults = 0) =>
        /\ result.value.response = hist.refusal
        /\ result.value.citations = <<>>
        /\ result.value.retrieved_docs_count = 0

\* C6: once the Router has stored a refusal the run is complete: no other
\* stage has executed and the Retrieval Port has not been called.
C6_RefusalSkipsToCompletion ==
    (InRun /\ hist.refused) =>
        /\ pc = "done"
        /\ \A n \in Nodes \ {"supervisor"} : hist.executed[n] = 0
        /\ hist.retrievals = 0

\* C7 as stated: for an in-domain query for which the Retrieval Port returns
\* the empty sequence, the returned response is the fixed
\* insufficient-information message and citations is empty.
C7_EmptyRetrievalReturnsNoInfoMessage ==
    (Returned /\ ~hist.refused /\ hist.faults = 0
              /\ vector_store[state.query] = <<>>) =>
        /\ result.value.response = NoInfoMessage
        /\ result.value.citations = <<>>

\* C7 as amended: for an in-domain query for which the Retrieval Port returns
\* the empty sequence, the draft answer is the fixed insufficient-information
\* message and citations is empty from the Answer-Composer on; a successful
\* result has no citations, and its response is the text the Policy-Annotator
\* generated followed by the disclaimer.
C7_EmptyRetrievalYieldsNoInfoDraft ==
    (InRun /\ ~hist.refused /\ hist.executed["supervisor"] > 0
           /\ vector_store[state.query] = <<>>) =>
        /\ hist.executed["answerer"] > 0 =>
            /\ state.answer = NoInfoMessage
            /\ state.citations = <<>>
        /\ (Returned /\ result.value.success) =>
            /\ result.value.citations = <<>>
            /\ result.value.retrieved_docs_count = 0
            /\ \E t \in SafetyTexts :
                result.value.response = t \o <<NL, NL>> \o SAFETY_DISCLAIMER

C7_Witness ==
    /\ Returned
    /\ result.value.success
    /\ ~hist.refused
    /\ hist.faults = 0
    /\ vector_store[state.query] = <<>>
    /\ state.answer = NoInfoMessage

\* C8: once the Answer-Composer has run, citations has one entry per item of
\* retrieved_docs as it was when the draft was produced, at most 5, numbered
\* 1, 2, ..., n in order, the i-th taken from the i-th item.
C8_CitationsMirrorContext ==
    (InRun /\ hist.executed["answerer"] > 0) =>
        /\ Len(state.citations) = Len(hist.docsAtDraft)
        /\ Len(state.citations) \in 0..RetrievalK
        /\ \A i \in 1..Len(state.citations) :
            LET c == state.citations[i]
                d == hist.docsAtDraft[i]
                n == Min(ExcerptChars, Len(d.content))
            IN /\ c.id = i
               /\ SubSeq(c.content, 1, n) = SubSeq(d.content, 1, n)
               /\ c.score = d.score
               /\ "source" \in DOMAIN d.metadata => c.source = d.metadata["source"]
               /\ "url" \in DOMAIN d.metadata => c.url = d.metadata["url"]

C8_Witness ==
    /\ hist.executed["answerer"] > 1
    /\ Len(state.citations) = RetrievalK
    /\ state.retrieved_docs = <<>>
    /\ state.answer = <<>>

\* C9: when the Policy-Annotator has just completed, final_response ends
\* with SAFETY_DISCLAIMER, whatever the draft and the generated text.
C9_AnnotatorEndsWithDisclaimer ==
    (InRun /\ hist.last = "safety") =>
        EndsWith(state.final_response, SAFETY_DISCLAIMER)

C9_Witness ==
    /\ hist.last = "safety"
    /\ state.answer = <<>>
    /\ state.final_response # <<NL, NL>> \o SAFETY_DISCLAIMER

\* C10: process_query hands its caller a result and never an exception; a
\* run in which a stage or the engine raised returns success = false with
\* the fixed apology, no citations and retrieved_docs_count = 0.
C10_FailuresBecomeApology ==
    /\ result.kind \in {"none", "return"}
    /\ pc = "done" => result.kind = "return"
    /\ (pc = "done" /\ hist.failedAt # "none") =>
        result.value = [response |-> ApologyMessage,
                        citations |-> <<>>,
                        retrieved_docs_count |-> 0,
                        success |-> FALSE]

C10_Witness ==
    /\ pc = "done"
    /\ hist.failedAt = "answerer"
    /\ ~result.value.success

\* text helpers of the claims
IsInfix(sub, text) ==
    \E i \in 1..(Len(text) - Len(sub) + 1) : SubSeq(text, i, i + Len(sub) - 1) = sub

SourcesHeader == "**Fontes consultadas:**"

\* the stage that just completed in a step of the observed run
JustRan(node) ==
    /\ pc = node
    /\ hist'.executed[node] = hist.executed[node] + 1

\* C11: when the Retrieval Port call fails, retrieved_docs is empty after
\* the Retriever-Stage and the next stage is the Answer-Composer; if no stage
\* raises afterwards, process_query returns success = true.
C11_RetrievalFailureDegrades ==
    /\ (InRun /\ hist.last = "retriever" /\ hist.portOutcome = "retrieval_failed") =>
        /\ state.retrieved_docs = <<>>
        /\ pc = "answerer"
    /\ (pc = "done" /\ hist.retrievalFailed /\ hist.failedAt \notin Nodes) =>
        /\ result.kind = "return"
        /\ result.value.success

\* the Retrieval Port returned at least one item and the run ended with the
\* Quality-Gate having evaluated once, approving
ApprovedFirstTime ==
    /\ Returned
    /\ ~hist.retrievalFailed
    /\ Len(vector_store[state.query]) >= 1
    /\ hist.gateEvals = 1
    /\ state.self_check_passed

\* the result holds every retrieved item as a citation and a response with
\* the disclaimer followed by the sources block
FullAnswer ==
    LET n == Len(vector_store[state.query])
        r == result.value
    IN /\ r.success
       /\ r.retrieved_docs_count = n
       /\ Len(r.citations) = n
       /\ \A k \in 1..n : r.citations[k].id = k
       /\ \E i \in 1..(Len(r.response) - Len(SAFETY_DISCLAIMER) + 1), j \in 1..Len(r.response) :
            /\ SubSeq(r.response, i, i + Len(SAFETY_DISCLAIMER) - 1) = SAFETY_DISCLAIMER
            /\ j >= i + Len(SAFETY_DISCLAIMER)
            /\ r.response[j] = SourcesHeader
            /\ \A k \in 1..n : \E m \in (j + 1)..Len(r.response) :
                    r.response[m] = r.citations[k].source

ExpectedSourceLine(c) ==
    IF c.url = ""
    THEN <<"- [", ToString(c.id), "] ", c.source, NL>>
    ELSE <<"- [", ToString(c.id), "] ", c.source, " (", c.url, ")", NL>>

RECURSIVE ExpectedSourceLines(_)
ExpectedSourceLines(cs) ==
    IF cs = <<>> THEN <<>>
    ELSE ExpectedSourceLine(Head(cs)) \o ExpectedSourceLines(Tail(cs))

\* C14: the Response-Finalizer leaves citations as they are and keeps the
\* Policy-Annotator's final_response as a prefix; it appends something if and
\* only if citations is non-empty, namely the header and one line per
\* citation in order, '- [id] source' followed by ' (url)' exactly when url
\* is non-empty.
C14_FinalizerAppendsSources ==
    [][ JustRan("finalizer") =>
            /\ state'.citations = state.citations
            /\ (state'.final_response # state.final_response) <=> (state.citations # <<>>)
            /\ state'.final_response =
                 state.final_response \o
                    (IF state.citations = <<>> THEN <<>>
                     ELSE <<NL, NL, SourcesHeader, NL>> \o ExpectedSourceLines(state.citations))
      ]_vars

C14_Witness ==
    /\ hist.last = "finalizer"
    /\ \E i, j \in 1..Len(state.citations) :
        state.citations[i].url = "" /\ state.citations[j].url # ""

\* C15: the Policy-Annotator executes only right after a Quality-Gate
\* evaluation that approved, the Response-Finalizer only right after the
\* Policy-Annotator, and a run that ends with the gate's verdict not approved
\* has executed neither.
C15_AnnotatorOnlyAfterApproval ==
    [][ /\ JustRan("safety") => (hist.last = "self_check" /\ state.self_check_passed)
        /\ JustRan("finalizer") => hist.last = "safety"
        /\ (pc' = "done" /\ hist'.gateEvals > 0 /\ ~state'.self_check_passed) =>
              (hist'.executed["safety"] = 0 /\ hist'.executed["finalizer"] = 0)
      ]_vars

C15_Witness ==
    /\ hist.last = "finalizer"
    /\ hist.retries >= 1
    /\ hist.executed["safety"] = 1

\* C16 as stated: once the Policy-Annotator has run to its end or to the
\* failure of its Generation Port call, final_response holds the disclaimer.
C16_DisclaimerWhateverTheOutcome ==
    (InRun /\ (hist.executed["safety"] > 0 \/ hist.failedAt = "safety")) =>
        IsInfix(SAFETY_DISCLAIMER, state.final_response)

\* C16 as amended: whatever text the Generation Port returns to the
\* Policy-Annotator, the empty text included, final_response holds the
\* disclaimer and so does the response of a successful run; when that call
\* fails no disclaimer is applied and the run returns the apology with
\* success = false.
C16_DisclaimerUnlessAnnotatorFails ==
    InRun =>
        /\ hist.executed["safety"] > 0 =>
            /\ IsInfix(SAFETY_DISCLAIMER, state.final_response)
            /\ (Returned /\ result.value.success) =>
                    IsInfix(SAFETY_DISCLAIMER, result.value.response)
        /\ hist.failedAt = "safety" =>
            /\ ~IsInfix(SAFETY_DISCLAIMER, state.final_response)
            /\ Returned
            /\ ~result.value.success
            /\ result.value.response = ApologyMessage

C16_Witness ==
    /\ hist.last = "safety"
    /\ state.final_response = <<NL, NL>> \o SAFETY_DISCLAIMER

\* the spellings of a verdict token that a case-insensitive substring match finds
ApprovedForms == {"APPROVED", "Approved", "approved", "NOT_APPROVED"}
RefusedForms == {"NEEDS_IMPROVEMENT", "needs_improvement", "REJECTED", "Rejected", "rejected"}

Mentions(text, forms) == \E i \in 1..Len(text) : text[i] \in forms

\* C19: the Quality-Gate matches the verdict tokens in any letter case, and a
\* text that holds none of them approves: self_check_passed is set, the next
\* stage is the Policy-Annotator and no retry is taken.
C19_UnrecognisedVerdictApproves ==
    [][ JustRan("self_check") =>
            LET t == hist'.gateText
            IN /\ Mentions(t, ApprovedForms) => state'.self_check_passed
               /\ (Mentions(t, RefusedForms) /\ ~Mentions(t, ApprovedForms)) =>
                      ~state'.self_check_passed
               /\ (~Mentions(t, ApprovedForms) /\ ~Mentions(t, RefusedForms)) =>
                      /\ state'.self_check_passed
                      /\ pc' = "safety"
                      /\ hist'.retries = hist.retries
      ]_vars

C19_Witness ==
    /\ hist.last = "self_check"
    /\ hist.gateText = <<"sem veredito claro">>
    /\ state.self_check_passed
    /\ pc = "safety"

\* C20: a Quality-Gate evaluation that does not approve while
\* iteration_count < MAX_RETRIES adds exactly 1 to iteration_count and leads
\* to the Retriever-Stage; no other step of the run changes iteration_count.
C20_RetryIncrementsCount ==
    [][ (pc \in Nodes /\ pc' # "idle") =>
            IF /\ JustRan("self_check")
               /\ ~state'.self_check_passed
               /\ state.iteration_count < MAX_RETRIES
            THEN /\ state'.iteration_count = state.iteration_count + 1
                 /\ pc' = "retriever"
            ELSE state'.iteration_count = state.iteration_count
      ]_vars

\* caller r's second call has returned, and prev holds what its first call left
SecondCallDone(r) ==
    /\ runs[r].calls = 2
    /\ runs[r].pc = "done"
    /\ prev.kind = "earlier"
    /\ prev.caller = r

\* C12: behind deterministic Ports, a second process_query call with the same
\* query on the same instance retrieves the same items and returns the same
\* response and the same citations as the first.
C12_RepeatedCallSameResult ==
    (callers = {1} /\ SecondCallDone(1)) =>
        /\ heap[1].retrieved_docs = prev.retrieved_docs
        /\ result.value.response = prev.result.value.response
        /\ result.value.citations = prev.result.value.citations

C12_Witness ==
    /\ callers = {1}
    /\ SecondCallDone(1)
    /\ result.value.success
    /\ Len(result.value.citations) = 2
    /\ prev.result.value.success

\* C17: the pipeline state of a call belongs to that call: a step of one run
\* leaves the state of every other run as it is, and a run that overlapped
\* with another caller's run returns what the same call returns when it is
\* made alone.
C17_ConcurrentRunsIndependent ==
    /\ [][\A r \in RunIds : runs'[r] = runs[r] => heap'[r] = heap[r]]_vars
    /\ [](\A r \in callers :
            (callers = {1, 2} /\ SecondCallDone(r) /\ prev.together) =>
                runs[r].result = prev.result)

C17_Witness ==
    /\ callers = {1, 2}
    /\ SecondCallDone(1)
    /\ prev.together
    /\ ~runs[1].together
    /\ runs[2].hist.executed["answerer"] > 0
    /\ prev.result.value.success

\* C18: get_response calls process_query with the content of the last
\* message whose role is 'user', whatever follows it in the list, and with
\* nothing else; when the list has no such message or that content is empty
\* it does not call process_query and answers 400.
C18_ForwardsLastUserMessage ==
    [][ (http.phase = "received" /\ http'.phase # "received") =>
            LET ms == IF "messages" \in DOMAIN http.request THEN http.request.messages ELSE <<>>
                users == {i \in 1..Len(ms) : "role" \in DOMAIN ms[i] /\ ms[i].role = "user"}
                last == CHOOSE i \in users : \A j \in users : j <= i
                content == IF "content" \in DOMAIN ms[last] THEN ms[last].content ELSE ""
                called == runs'[1].calls = runs[1].calls + 1
            IN IF users = {} \/ content = ""
               THEN /\ http'.status = 400
                    /\ ~called
                    /\ runs' = runs
               ELSE /\ called <=> http.climate_agents
                    /\ called => /\ runs'[1].query = content
                                 /\ heap'[1].query = content
                                 /\ runs'[1].pc = EntryPoint
                    /\ ~called => runs' = runs
      ]_vars

C18_Witness ==
    /\ http.phase = "processing"
    /\ http.skipped >= 1
    /\ runs[1].query = "oceanos"
    /\ heap[1].query = "oceanos"

\* what the Retrieval Port returns for the observed run's query, as the
\* Retriever-Stage is to store it
ItemsOfCall ==
    LET ranking == vector_store[state.query]
    IN [i \in 1..Min(RetrievalK, Len(ranking)) |->
            [content |-> ranking[i].page_content,
             metadata |-> ranking[i].metadata,
             score |-> ranking[i].score]]

\* C21: whatever the outcome of the adequacy call of a Retriever-Stage
\* execution whose Retrieval Port call returned, retrieved_docs after the
\* stage is what the Retrieval Port returned, and the next stage is the
\* Answer-Composer.
C21_AdequacyIsAdvisory ==
    [][ (JustRan("retriever") /\ hist'.portOutcome \in {"ok", "adequacy_failed"}) =>
            /\ state'.retrieved_docs = ItemsOfCall
            /\ pc' = "answerer"
      ]_vars

\* C22: every Retriever-Stage execution leaves the query as it is and
\* replaces retrieved_docs by the items its own Retrieval Port call returned
\* for that query with k = 5, or by the empty sequence when that call failed;
\* nothing of an earlier attempt is kept and there are never more than 5 items.
C22_RetrieverReplacesContext ==
    [][ JustRan("retriever") =>
            /\ state'.query = state.query
            /\ state'.query = runs[1].query
            /\ Len(state'.retrieved_docs) <= RetrievalK
            /\ state'.retrieved_docs =
                 IF hist'.portOutcome = "retrieval_failed" THEN <<>> ELSE ItemsOfCall
      ]_vars

IsPrefix(a, b) == Len(a) <= Len(b) /\ SubSeq(b, 1, Len(a)) = a

\* C23: every step of a run, the Router's and those of every retry included,
\* leaves the messages it found as a prefix of the messages it leaves.
C23_MessagesAppendOnly ==
    [][ (pc \in Nodes /\ pc' # "idle") => IsPrefix(state.messages, state'.messages) ]_vars

C23_Witness ==
    /\ hist.last = "self_check"
    /\ hist.retries >= 2
    /\ Len(state.messages) >= 5
    /\ state.messages[1].node = "supervisor"

\* C24: the excerpt of every citation has at most 200 characters, however
\* long the retrieved item is.
C24_ExcerptWithinLimit ==
    InRun => \A i \in 1..Len(state.citations) :
                Len(state.citations[i].content) <= ExcerptChars

\* C25: a successful result counts as many retrieved items as it returns
\* citations, and the i-th citation is the one of the i-th item of the last
\* Retriever-Stage execution, whatever retries, retrieval failures and
\* verdicts came before.
C25_CountMatchesCitations ==
    (Returned /\ result.value.success) =>
        /\ result.value.retrieved_docs_count = Len(result.value.citations)
        /\ Len(result.value.citations) = Len(state.retrieved_docs)
        /\ \A i \in 1..Len(result.value.citations) :
            /\ result.value.citations[i].id = i
            /\ result.value.citations[i].score = state.retrieved_docs[i].score

C25_Witness ==
    /\ Returned
    /\ result.value.success
    /\ hist.retries >= 1
    /\ hist.retrievals >= 2
    /\ hist.portOutcome = "retrieval_failed"
    /\ Len(vector_store[state.query]) >= 1
    /\ result.value.retrieved_docs_count = 0

\* C26: when the adequacy call of a Retriever-Stage execution raises after
\* the Retrieval Port call returned, the run does not end: retrieved_docs is
\* left empty, the next stage is the Answer-Composer, and that execution of
\* the Answer-Composer sets the insufficient-information draft without a
\* Generation Port call.
C26_AdequacyFailureEmptiesContext ==
    [][ /\ (JustRan("retriever") /\ hist'.portOutcome = "adequacy_failed") =>
            /\ state'.retrieved_docs = <<>>
            /\ pc' = "answerer"
            /\ result' = NoResult
            /\ hist'.failedAt = "none"
        /\ (JustRan("answerer") /\ hist.portOutcome = "adequacy_failed") =>
            /\ state'.answer = NoInfoMessage
            /\ state'.citations = <<>>
            /\ hist'.nextId = hist.nextId
            /\ hist'.faults = hist.faults
      ]_vars

C26_Witness ==
    /\ hist.last = "answerer"
    /\ hist.portOutcome = "adequacy_failed"
    /\ Len(vector_store[state.query]) >= 1
    /\ state.retrieved_docs = <<>>
    /\ state.answer = NoInfoMessage
    /\ pc = "self_check"

\* C27: a gate text that holds 'approved' in any letter case approves, also
\* when it holds NEEDS_IMPROVEMENT or REJECTED as well; the run is sent back
\* or refused only on a text that holds one of those two and not 'approved'.
C27_ApprovedTakesPrecedence ==
    [][ JustRan("self_check") =>
            LET t == hist'.gateText
                approving == \E i \in 1..Len(t) : t[i] \in ApprovedForms
                refusing == \E i \in 1..Len(t) : t[i] \in RefusedForms
            IN /\ approving =>
                    /\ state'.self_check_passed
                    /\ pc' = "safety"
                    /\ hist'.retries = hist.retries
               /\ (~state'.self_check_passed \/ pc' # "safety" \/ hist'.retries # hist.retries) =>
                    (refusing /\ ~approving)
      ]_vars

C27_Witness ==
    /\ hist.last = "self_check"
    /\ hist.gateText = <<"Rejected", "but partly", "APPROVED">>
    /\ state.self_check_passed
    /\ pc = "safety"

\* C28: with nothing retrieved the Answer-Composer calls no Port and cannot
\* fail: it sets the insufficient-information draft and no citations and
\* hands over to the Quality-Gate, whose refusal of that draft sends the run
\* back to the Retriever-Stage like any other refusal.
C28_EmptyContextDraftIsGated ==
    [][ /\ (pc = "answerer" /\ state.retrieved_docs = <<>> /\ hist' # hist) =>
            hist'.failedAt \in {"none", "recursion_limit"}
        /\ (JustRan("answerer") /\ state.retrieved_docs = <<>>) =>
            /\ state'.answer = NoInfoMessage
            /\ state'.citations = <<>>
            /\ hist'.nextId = hist.nextId
            /\ Len(state'.messages) = Len(state.messages)
            /\ pc' = "self_check"
        /\ (JustRan("self_check") /\ hist.docsAtDraft = <<>> /\ ~state'.self_check_passed) =>
            /\ state.answer = NoInfoMessage
            /\ pc' = "retriever"
            /\ hist'.retries = hist.retries + 1
      ]_vars

C28_Witness ==
    /\ hist.last = "self_check"
    /\ hist.docsAtDraft = <<>>
    /\ state.answer = NoInfoMessage
    /\ state.citations = <<>>
    /\ ~state.self_check_passed
    /\ pc = "retriever"

\* C29: whatever calls of initialize_system and POST /reload have been made,
\* and however they ended, the document_processor that /search and /status
\* read is the instance climate_agents was built with, and while
\* climate_agents is set that instance has a loaded vector store.
C29_GlobalsStayPaired ==
    app.climate_agents.id # 0 =>
        /\ app.document_processor = app.climate_agents.document_processor
        /\ app.document_processor.id # 0
        /\ app.document_processor.vector_store_loaded

\* C30: for a successful run the chat endpoint answers 200 with the run's
\* response and a metadata block whose citations_count is the number of all
\* citations of the result while its citations are the first min(3, n) of
\* them in order; for a failed run it answers 500 with the apology and no
\* metadata.
C30_ChatResponseMetadata ==
    (http.phase = "answered" /\ runs[1].pc = "done") =>
        LET returned == runs[1].result.value
            n == Len(returned.citations)
            shown == IF n < 3 THEN n ELSE 3
        IN IF returned.success
           THEN /\ http.status = 200
                /\ http.body.response = returned.response
                /\ http.body.metadata.citations_count = n
                /\ http.body.metadata.retrieved_docs_count = returned.retrieved_docs_count
                /\ Len(http.body.metadata.citations) = shown
                /\ \A i \in 1..shown :
                    /\ http.body.metadata.citations[i] = returned.citations[i]
                    /\ http.body.metadata.citations[i].id = i
           ELSE /\ http.status = 500
                /\ http.body.response = ApologyMessage
                /\ "metadata" \notin DOMAIN http.body

C30_Witness ==
    /\ http.phase = "answered"
    /\ http.status = 200
    /\ http.body.metadata.citations_count = 4
    /\ Len(http.body.metadata.citations) = 3
    /\ http.body.metadata.citations[3].id = 3

=============================================================================
